---- MODULE Spec2Model ----
(***************************************************************************)
(* A model of the VibeRehab backend's artifact handling:                   *)
(*   - the audio store (services/audio_handler.py, routes/audio.py),       *)
(*   - the generation gateway (services/ai_model_service.py, routes/ai.py),*)
(*   - the text store and generation log (services/text_handler.py), and   *)
(*   - save_audio and log_generation taken statement by statement, for     *)
(*     requests that overlap.                                              *)
(*                                                                         *)
(* A filename is the sequence of its dot-separated components, so          *)
(* "a.wav" is <<"a", "wav">> and "a.wav.mp3" is <<"a", "wav", "mp3">>;     *)
(* the empty sequence stands for a filename that is None or "".            *)
(* A partition (directory) is a function from the names present in it to   *)
(* file records [data, mtime].  Time is counted in whole hours.            *)
(***************************************************************************)
EXTENDS Integers, Sequences, FiniteSets, TLC

VARIABLES
    temp, permanent,    \* the two audio partitions
    now,                \* the clock, in hours
    last,               \* the last audio operation and its result
    gpc,                \* phase of the generation call being handled
    call,               \* the generation request being (or last) handled
    response,           \* the remote endpoint's HTTP response to this call
    sent,               \* outbound requests made by this call
    fallbacks,          \* fallback generator invocations by this call
    svc,                \* what the model service gave the route
    reply,              \* the route's reply to the request
    stories, schedules, \* the text partitions: filename -> document
    genlog,             \* the generation log of the day, as the routes append to it
    epoch,              \* the clock, in seconds (time.time())
    writers,            \* file handles save_audio calls hold open
    loggers,            \* the log_generation calls in progress
    logfiles,           \* the logs directory: day -> content of its file
    today,              \* the clock, in calendar days
    logcalls,           \* day -> entries of the calls that returned, in order
    deleters,           \* the delete_audio calls in progress
    sweeper             \* the cleanup_temp_files call in progress

audioVars == <<temp, permanent, now, last>>
gatewayVars ==
    <<gpc, call, response, sent, fallbacks, svc, reply, stories, schedules,
      genlog, epoch>>
logVars == <<loggers, logfiles, today, logcalls>>
delVars == <<deleters, sweeper>>
concVars == <<writers, logVars, delVars>>
vars == <<audioVars, gatewayVars, concVars>>

\* ---------------------------------------------------------------- bounds
MaxTime == 2
MaxFiles == 2
MaxEpoch == 3
MaxLog == 2
MaxTasks == 6
MaxDay == 1
MaxCalls == 3

\* ------------------------------------------------------------ input sets
NoName == <<>>
\* Optional[...]: None, or a found value
NotFound == [found |-> FALSE]
Some(v) == [found |-> TRUE, value |-> v]

AudioData == {<<>>, <<1>>, <<2, 3>>}
UUIDs == {"u1"}
\* (filename, format) pairs handed to save_audio: no name, a name without
\* the extension, a name that already carries it, a name carrying another
\* format's extension.
SaveInputs ==
    { <<NoName, "ogg">>, <<(<<"a">>), "wav">>, <<(<<"a", "wav">>), "wav">>,
      <<(<<"a", "wav">>), "mp3">> }
LookupNames ==
    { <<"audio_u1", "ogg">>, <<"a", "wav">>, <<"a", "wav", "mp3">>, <<"zz", "wav">> }
DefaultMaxAgeHours == 24
MaxAges == {-1, 0, 1, DefaultMaxAgeHours}

\* ------------------------------------------------------- file primitives
Exists(dir, name) == name \in DOMAIN dir

Write(dir, name, data, t) ==
    [n \in (DOMAIN dir) \cup {name} |->
        IF n = name THEN [data |-> data, mtime |-> t] ELSE dir[n]]

Unlink(dir, name) == [n \in (DOMAIN dir) \ {name} |-> dir[n]]

\* str.endswith("." + format)
EndsWithExt(name, format) == Len(name) >= 2 /\ name[Len(name)] = format

\* Path.glob("*.<ext>") over one directory
Glob(dir, ext) == {n \in DOMAIN dir : EndsWithExt(n, ext)}

FileCount == Cardinality(DOMAIN temp) + Cardinality(DOMAIN permanent)

EmptyDir == [n \in {} |-> 0]

\* ------------------------------------------------------------ AudioHandler
\* What the last operation was and what it gave back: op, the filename it
\* was about, the exception it raised ("none" when it returned), its
\* return value, and the HTTP status for an operation reached by a route
\* (0 for a direct call of the handler).
Outcome(op, filename, raised, ret, status) ==
    [op |-> op, filename |-> filename, raised |-> raised, ret |-> ret,
     status |-> status]

\* (mutation of StoredName: the extension appended unconditionally)
StoredName_always_append(filename, format, uid) ==
    IF filename = NoName THEN <<"audio_" \o uid, format>>
    ELSE Append(filename, format)

\* save_audio: the filename the data is stored under
StoredName(filename, format, uid) ==
    IF filename = NoName THEN <<"audio_" \o uid, format>>
    ELSE IF ~EndsWithExt(filename, format) THEN Append(filename, format)
    ELSE filename

save_audio(audio_data, filename, is_permanent, format, uid) ==
    IF audio_data = <<>>
    THEN /\ last' = Outcome("save", filename, "ValueError", NotFound, 0)
         /\ UNCHANGED <<temp, permanent, now>>
    ELSE LET name == StoredName(filename, format, uid)
             target_dir == IF is_permanent THEN permanent ELSE temp
         IN  /\ Exists(target_dir, name) \/ FileCount < MaxFiles
             /\ IF is_permanent
                THEN /\ permanent' = Write(permanent, name, audio_data, now)
                     /\ UNCHANGED temp
                ELSE /\ temp' = Write(temp, name, audio_data, now)
                     /\ UNCHANGED permanent
             /\ last' = Outcome("save", name, "none",
                                [filename |-> name,
                                 partition |-> IF is_permanent THEN "permanent" ELSE "temp",
                                 format |-> format,
                                 size_bytes |-> Len(audio_data),
                                 created_at |-> now,
                                 permanent |-> is_permanent,
                                 data |-> audio_data,
                                 given |-> filename], 0)
             /\ UNCHANGED now

\* (mutation of get_audio: the permanent partition searched first)
get_audio_permanent_first(filename) ==
    IF Exists(permanent, filename) THEN Some(permanent[filename].data)
    ELSE IF Exists(temp, filename) THEN Some(temp[filename].data)
    ELSE NotFound

\* get_audio: temp first, then permanent; the first match wins
get_audio(filename) ==
    IF Exists(temp, filename) THEN Some(temp[filename].data)
    ELSE IF Exists(permanent, filename) THEN Some(permanent[filename].data)
    ELSE NotFound

\* (mutation of get_audio_info: the permanent partition searched first)
get_audio_info_permanent_first(filename) ==
    IF Exists(permanent, filename)
    THEN Some([filename |-> filename, partition |-> "permanent",
               size_bytes |-> Len(permanent[filename].data),
               modified_at |-> permanent[filename].mtime, exists |-> TRUE])
    ELSE IF Exists(temp, filename)
    THEN Some([filename |-> filename, partition |-> "temp",
               size_bytes |-> Len(temp[filename].data),
               modified_at |-> temp[filename].mtime, exists |-> TRUE])
    ELSE NotFound

get_audio_info(filename) ==
    IF Exists(temp, filename)
    THEN Some([filename |-> filename, partition |-> "temp",
               size_bytes |-> Len(temp[filename].data),
               modified_at |-> temp[filename].mtime, exists |-> TRUE])
    ELSE IF Exists(permanent, filename)
    THEN Some([filename |-> filename, partition |-> "permanent",
               size_bytes |-> Len(permanent[filename].data),
               modified_at |-> permanent[filename].mtime, exists |-> TRUE])
    ELSE NotFound

\* (mutation of delete_audio_returns: True also after the loop)
delete_audio_returns_always(filename) == TRUE

\* delete_audio: unlinks the first match and returns whether it found one
delete_audio_returns(filename) ==
    Exists(temp, filename) \/ Exists(permanent, filename)

\* (mutation of delete_audio: the permanent partition searched first)
delete_audio_permanent_first(filename) ==
    IF Exists(permanent, filename)
    THEN permanent' = Unlink(permanent, filename) /\ UNCHANGED temp
    ELSE IF Exists(temp, filename)
    THEN temp' = Unlink(temp, filename) /\ UNCHANGED permanent
    ELSE UNCHANGED <<temp, permanent>>

delete_audio(filename) ==
    IF Exists(temp, filename)
    THEN temp' = Unlink(temp, filename) /\ UNCHANGED permanent
    ELSE IF Exists(permanent, filename)
    THEN permanent' = Unlink(permanent, filename) /\ UNCHANGED temp
    ELSE UNCHANGED <<temp, permanent>>

\* (mutation of Expired: modified_time <= cutoff_time)
Expired_inclusive(dir, ext, cutoff_time) ==
    {n \in Glob(dir, ext) : dir[n].mtime <= cutoff_time}

\* cleanup_temp_files: the files one glob loop unlinks
Expired(dir, ext, cutoff_time) ==
    {n \in Glob(dir, ext) : dir[n].mtime < cutoff_time}

SweptExtensions == <<"wav", "mp3">>

RECURSIVE SweepAll(_, _, _)
SweepAll(dir, exts, cutoff_time) ==
    IF exts = <<>> THEN [dir |-> dir, deleted_count |-> 0]
    ELSE LET gone == Expired(dir, Head(exts), cutoff_time)
             rest == SweepAll([n \in (DOMAIN dir) \ gone |-> dir[n]],
                              Tail(exts), cutoff_time)
         IN  [dir |-> rest.dir,
              deleted_count |-> Cardinality(gone) + rest.deleted_count]

\* (mutation of cleanup_temp_files: both partitions swept)
cleanup_all_files(max_age_hours) ==
    LET cutoff_time == now - max_age_hours
        swept == SweepAll(temp, SweptExtensions, cutoff_time)
        swept_p == SweepAll(permanent, SweptExtensions, cutoff_time)
    IN  /\ temp' = swept.dir
        /\ permanent' = swept_p.dir
        /\ last' = Outcome("cleanup", NoName, "none",
                           [deleted_count |->
                                swept.deleted_count + swept_p.deleted_count,
                            max_age_hours |-> max_age_hours], 200)
        /\ UNCHANGED now

cleanup_temp_files(max_age_hours) ==
    LET cutoff_time == now - max_age_hours
        swept == SweepAll(temp, SweptExtensions, cutoff_time)
    IN  /\ temp' = swept.dir
        /\ UNCHANGED permanent
        /\ last' = Outcome("cleanup", NoName, "none",
                           [deleted_count |-> swept.deleted_count,
                            max_age_hours |-> max_age_hours], 200)
        /\ UNCHANGED now

\* list_audio_files
Lower(s) ==
    CASE s = "WAV" -> "wav" [] s = "MP3" -> "mp3" [] s = "OGG" -> "ogg"
      [] s = "Check" -> "check" [] s = "Posture" -> "posture"
      [] s = "POSTURE" -> "posture" [] s = "Walk" -> "walk"
      [] s = "Walking" -> "walking" [] s = "Knee" -> "knee"
      [] s = "Stretches" -> "stretches" [] s = "Evening" -> "evening"
      [] OTHER -> s

ListedExtensions == {"wav", "mp3", "ogg"}

Listed(dir, is_permanent) ==
    { [filename |-> n, size_bytes |-> Len(dir[n].data),
       created_at |-> dir[n].mtime, permanent |-> is_permanent] :
      n \in {m \in DOMAIN dir :
                Len(m) >= 2 /\ Lower(m[Len(m)]) \in ListedExtensions} }

\* the orders sorted(files, key=created_at, reverse=True) can give
SortedDescending(S) ==
    { s \in [1..Cardinality(S) -> S] :
        /\ \A i, j \in 1..Cardinality(S) : i # j => s[i] # s[j]
        /\ \A i, j \in 1..Cardinality(S) :
              i < j => s[i].created_at >= s[j].created_at }

\* (mutation of list_audio_files: permanent_only ignored)
list_audio_files_both(permanent_only) ==
    SortedDescending(Listed(temp, FALSE) \cup Listed(permanent, TRUE))

list_audio_files(permanent_only) ==
    SortedDescending(IF permanent_only THEN Listed(permanent, TRUE)
                     ELSE Listed(temp, FALSE) \cup Listed(permanent, TRUE))

\* ------------------------------------------------------ routes/audio.py
MimeType(filename) ==
    IF EndsWithExt(filename, "wav") THEN "audio/wav"
    ELSE IF EndsWithExt(filename, "mp3") THEN "audio/mpeg"
    ELSE IF EndsWithExt(filename, "ogg") THEN "audio/ogg"
    ELSE "application/octet-stream"

get_audio_file(filename) ==
    /\ last' = IF get_audio(filename) = NotFound
               THEN Outcome("get", filename, "none", NotFound, 404)
               ELSE Outcome("get", filename, "none",
                            [body |-> get_audio(filename).value,
                             mimetype |-> MimeType(filename)], 200)
    /\ UNCHANGED <<temp, permanent, now>>

get_audio_info_route(filename) ==
    /\ last' = IF get_audio_info(filename) = NotFound
               THEN Outcome("info", filename, "none", NotFound, 404)
               ELSE Outcome("info", filename, "none",
                            get_audio_info(filename).value, 200)
    /\ UNCHANGED <<temp, permanent, now>>

list_audio_files_route(permanent_only) ==
    /\ \E files \in list_audio_files(permanent_only) :
          last' = Outcome("list", NoName, "none",
                          [files |-> files, count |-> Len(files),
                           permanent_only |-> permanent_only], 200)
    /\ UNCHANGED <<temp, permanent, now>>

delete_audio_file(filename) ==
    /\ delete_audio(filename)
    /\ last' = IF delete_audio_returns(filename)
               THEN Outcome("delete", filename, "none", TRUE, 200)
               ELSE Outcome("delete", filename, "none", FALSE, 404)
    /\ UNCHANGED now

cleanup_temp_audio(max_age_hours) == cleanup_temp_files(max_age_hours)

\* the clock advances by an hour
Tick ==
    /\ now < MaxTime
    /\ now' = now + 1
    /\ last' = Outcome("tick", NoName, "none", NotFound, 0)
    /\ UNCHANGED <<temp, permanent>>

\* ------------------------------------------------ services/text_handler.py
Ids == {"i1", "i2"}

TextWrite(dir, name, doc) ==
    [n \in (DOMAIN dir) \cup {name} |-> IF n = name THEN doc ELSE dir[n]]

\* (mutation of save_story_raises: the emptiness test dropped)
save_story_raises_never(story_text) == FALSE

\* save_story / save_schedule raise ValueError on an empty payload
save_story_raises(story_text) == story_text = ""
save_schedule_raises(schedule) == schedule = <<>>

\* story_<timestamp>_<id>.json
save_story(story_text, id) ==
    TextWrite(stories, <<"story", epoch, id>>,
              [id |-> id, text |-> story_text, created_at |-> epoch,
               type |-> "story"])

\* schedule_<timestamp>_<id>.json
save_schedule(schedule, id) ==
    TextWrite(schedules, <<"schedule", epoch, id>>,
              [id |-> id, schedule |-> schedule, task_count |-> Len(schedule),
               created_at |-> epoch, type |-> "schedule"])

log_generation(generation_type, success) ==
    Append(genlog, [timestamp |-> epoch, type |-> generation_type,
                    success |-> success])

\* ------------------------------------------ services/ai_model_service.py
\* A task name is the sequence of its words.
CheckPosture == <<"Check", "Posture">>
TaskLists ==
    { <<CheckPosture>>,
      << <<"POSTURE", "walk">> >>,
      << <<"10-min", "Walk">> >>,
      << <<"Knee", "Stretches">>, <<"Evening", "Walking">>, CheckPosture >> }

\* "sub" in word, for lower-case words
Substring(sub, word) == word = sub \/ <<sub, word>> \in {<<"walk", "walking">>}

\* "sub" in task.lower()
Contains(sub, task) == \E i \in 1..Len(task) : Substring(sub, Lower(task[i]))

\* what the remote endpoint can do with one POST
NoResponse == [received |-> FALSE]
NotJson == [json |-> FALSE]
Json(obj) == [json |-> TRUE, value |-> obj]
EmptyObject == <<>>
ClockString(hour, suffix) == [hour |-> hour, suffix |-> suffix]

StoryBodies ==
    { Json([text |-> "A generated story"]),
      Json([text |-> "A generated story", audio |-> "AgM="]),
      Json([text |-> "A generated story", audio |-> "AgM"]),
      Json(EmptyObject),
      NotJson }

ScheduleBodies ==
    { Json([schedule |-> << [time |-> ClockString(9, "AM"), task |-> CheckPosture] >>,
            metadata |-> [source |-> "model"], confidence |-> "0.9"]),
      Json([schedule |-> << [time |-> ClockString(9, "AM"), task |-> CheckPosture],
                            [time |-> ClockString(10, "AM")] >>]),
      Json([schedule |-> << [task |-> CheckPosture] >>]),
      Json(EmptyObject),
      NotJson }

Bodies(kind) == IF kind = "story" THEN StoryBodies ELSE ScheduleBodies

HttpOk == 200
HttpServerError == 500

RemoteOutcomes(kind) ==
    {[failed |-> TRUE]}
      \cup {[failed |-> FALSE, status |-> HttpOk, body |-> b] : b \in Bodies(kind)}
      \cup {[failed |-> FALSE, status |-> HttpServerError, body |-> NotJson]}

\* response.json() on a body that is not JSON raises
\* requests.exceptions.JSONDecodeError, a RequestException, from requests
\* 2.27 on, and a plain ValueError before; the repository pins no version.
JsonErrorClasses == {"RequestException", "ValueError"}

\* base64.b64decode
B64Decode(str) ==
    CASE str = "AgM=" -> Some(<<2, 3>>)
      [] str = "AQ==" -> Some(<<1>>)
      [] OTHER -> NotFound

NoResult == [state |-> "none"]
Returned(v) == [state |-> "returned", value |-> v]
Raised(exc) == [state |-> "raised", exc |-> exc]

Get(obj, key, default) == IF key \in DOMAIN obj THEN obj[key] ELSE default

\* generate_story, HTTP 200 with a JSON body
generate_story_result(result) ==
    LET text_output == Get(result, "text", "")
    IN  IF "audio" \in DOMAIN result /\ result.audio # ""
        THEN IF B64Decode(result.audio).found
             THEN Returned([text |-> text_output,
                            audio |-> B64Decode(result.audio)])
             ELSE Raised("Exception")
        ELSE Returned([text |-> text_output, audio |-> NotFound])

\* (mutation of generate_schedule_result: only 'time' is validated)
generate_schedule_result_time_only(result) ==
    LET schedule == Get(result, "schedule", <<>>)
    IN  IF \E i \in 1..Len(schedule) : "time" \notin DOMAIN schedule[i]
        THEN Raised("Exception")
        ELSE Returned([schedule |-> schedule,
                       metadata |-> Get(result, "metadata", EmptyObject),
                       confidence |-> Get(result, "confidence", "0.0")])

\* generate_schedule, HTTP 200 with a JSON body
generate_schedule_result(result) ==
    LET schedule == Get(result, "schedule", <<>>)
    IN  IF \E i \in 1..Len(schedule) :
              "time" \notin DOMAIN schedule[i] \/ "task" \notin DOMAIN schedule[i]
        THEN Raised("Exception")
        ELSE Returned([schedule |-> schedule,
                       metadata |-> Get(result, "metadata", EmptyObject),
                       confidence |-> Get(result, "confidence", "0.0")])

FallbackStories == <<"Today is a new chapter", "Like a river", "Recovery is not a race">>

\* (mutation of generate_fallback_story: the rotation off by one)
generate_fallback_story_shifted(t) ==
    [text |-> FallbackStories[((t + 1) % Len(FallbackStories)) + 1],
     audio |-> NotFound]

\* _generate_fallback_story
generate_fallback_story(t) ==
    [text |-> FallbackStories[(t % Len(FallbackStories)) + 1], audio |-> NotFound]

BaseHour == 11
Noon == 12
PostureChecks == 3
HourStep == 2

\* (mutation of ClockTime: the hour not wrapped after noon)
ClockTime_no_wrap(hour) ==
    IF hour < Noon THEN ClockString(hour, "AM") ELSE ClockString(hour, "PM")

\* f"{h}:00 AM" if h < 12 else f"{h - 12}:00 PM"
ClockTime(hour) ==
    IF hour < Noon THEN ClockString(hour, "AM") ELSE ClockString(hour - Noon, "PM")

RECURSIVE FallbackEntries(_, _)
FallbackEntries(tasks, current_hour) ==
    IF tasks = <<>> THEN <<>>
    ELSE LET task == Head(tasks) IN
         IF Contains("posture", task)
         THEN [i \in 1..PostureChecks |->
                 [time |-> ClockTime(current_hour + ((i - 1) * HourStep)),
                  task |-> task]]
              \o FallbackEntries(Tail(tasks), current_hour)
         ELSE IF Contains("walk", task)
         THEN << [time |-> ClockString(5, "PM"), task |-> task] >>
              \o FallbackEntries(Tail(tasks), current_hour)
         ELSE << [time |-> ClockTime(current_hour), task |-> task] >>
              \o FallbackEntries(Tail(tasks), current_hour + HourStep)

\* _generate_fallback_schedule
generate_fallback_schedule(tasks) ==
    [schedule |-> FallbackEntries(tasks, BaseHour),
     metadata |-> [source |-> "fallback"],
     confidence |-> "0.5"]

\* requests.post: one request leaves; the endpoint is unreachable (a
\* RequestException is raised inside the try) or answers
post ==
    /\ gpc = "ATTEMPT_REMOTE"
    /\ sent' = sent + 1
    /\ \E r \in RemoteOutcomes(call.kind) :
          IF r.failed
          THEN /\ gpc' = "REQUEST_EXCEPTION"
               /\ response' = NoResponse
          ELSE /\ gpc' = "RESPONSE"
               /\ response' = [received |-> TRUE, status |-> r.status, body |-> r.body]
    /\ UNCHANGED <<call, fallbacks, svc, reply, stories, schedules, genlog, epoch>>

\* (mutation of handle_response: a non-200 status raised as a
\* RequestException, as response.raise_for_status() would)
handle_response_raise_for_status ==
    /\ gpc = "RESPONSE"
    /\ IF response.status # HttpOk
       THEN gpc' = "REQUEST_EXCEPTION" /\ svc' = svc
       ELSE IF ~response.body.json
       THEN \E cls \in JsonErrorClasses :
               IF cls = "RequestException"
               THEN gpc' = "REQUEST_EXCEPTION" /\ svc' = svc
               ELSE gpc' = "FATAL" /\ svc' = Raised("Exception")
       ELSE LET r == IF call.kind = "story"
                     THEN generate_story_result(response.body.value)
                     ELSE generate_schedule_result(response.body.value)
            IN  /\ svc' = r
                /\ gpc' = IF r.state = "raised" THEN "FATAL" ELSE "SUCCESS"
    /\ UNCHANGED <<call, response, sent, fallbacks, reply, stories, schedules,
                   genlog, epoch>>

\* the rest of the try block of generate_story / generate_schedule
handle_response ==
    /\ gpc = "RESPONSE"
    /\ IF response.status # HttpOk
       THEN gpc' = "FATAL" /\ svc' = Raised("Exception")
       ELSE IF ~response.body.json
       THEN \E cls \in JsonErrorClasses :
               IF cls = "RequestException"
               THEN gpc' = "REQUEST_EXCEPTION" /\ svc' = svc
               ELSE gpc' = "FATAL" /\ svc' = Raised("Exception")
       ELSE LET r == IF call.kind = "story"
                     THEN generate_story_result(response.body.value)
                     ELSE generate_schedule_result(response.body.value)
            IN  /\ svc' = r
                /\ gpc' = IF r.state = "raised" THEN "FATAL" ELSE "SUCCESS"
    /\ UNCHANGED <<call, response, sent, fallbacks, reply, stories, schedules,
                   genlog, epoch>>

\* except requests.exceptions.RequestException
fallback ==
    /\ gpc = "REQUEST_EXCEPTION"
    /\ fallbacks' = fallbacks + 1
    /\ svc' = IF call.kind = "story"
              THEN Returned(generate_fallback_story(epoch))
              ELSE Returned(generate_fallback_schedule(call.tasks))
    /\ gpc' = "FALLBACK"
    /\ UNCHANGED <<call, response, sent, reply, stories, schedules, genlog, epoch>>

\* --------------------------------------------------------- routes/ai.py
NoCall == [kind |-> "none"]
NoReply == [status |-> 0]

\* request bodies of POST /ai/generateschedule: nothing (or {}), an object
\* without tasks, tasks that is no list, an empty list, a list of tasks
ScheduleRequests ==
    { [body |-> FALSE, has_tasks |-> FALSE, is_list |-> FALSE, tasks |-> <<>>],
      [body |-> TRUE, has_tasks |-> FALSE, is_list |-> FALSE, tasks |-> <<>>],
      [body |-> TRUE, has_tasks |-> TRUE, is_list |-> FALSE, tasks |-> <<>>],
      [body |-> TRUE, has_tasks |-> TRUE, is_list |-> TRUE, tasks |-> <<>>] }
      \cup {[body |-> TRUE, has_tasks |-> TRUE, is_list |-> TRUE, tasks |-> t] :
               t \in TaskLists}

HttpBadRequest == 400

\* (mutation of InvalidTasks: the emptiness test forgotten)
InvalidTasks_type_only(data) == ~data.is_list

\* not isinstance(tasks, list) or len(tasks) == 0
InvalidTasks(data) == ~data.is_list \/ Len(data.tasks) = 0

\* what the file system does to one request: whether the handler's save
\* (open of the story / schedule file) works, whether log_generation
\* called in the try block works, whether log_generation called in the
\* except block works; a failing call raises OSError before it writes
IoOutcomes == [save : BOOLEAN, log_try : BOOLEAN, log_except : BOOLEAN]
IoWorks == [save |-> TRUE, log_try |-> TRUE, log_except |-> TRUE]

\* an exception left the view function: Flask answers with its own 500 page
Unhandled == [status |-> HttpServerError, unhandled |-> TRUE]

\* number of artifact files the text handler holds
TextCount == Cardinality(DOMAIN stories) + Cardinality(DOMAIN schedules)

\* the except block of both routes: log the failure, answer 500 with a
\* JSON body
ai_except(generation_type, io) ==
    IF io.log_except
    THEN /\ genlog' = log_generation(generation_type, FALSE)
         /\ reply' = [status |-> HttpServerError, success |-> FALSE]
    ELSE /\ genlog' = genlog
         /\ reply' = Unhandled

generate_vibe_story(include_audio, save_audio_permanent) ==
    /\ gpc = "idle"
    /\ Len(genlog) < MaxLog /\ TextCount < MaxLog
    /\ call' = [kind |-> "story", include_audio |-> include_audio,
                save_audio |-> save_audio_permanent]
    /\ gpc' = "ATTEMPT_REMOTE"
    /\ response' = NoResponse /\ sent' = 0 /\ fallbacks' = 0
    /\ svc' = NoResult /\ reply' = NoReply
    /\ UNCHANGED <<stories, schedules, genlog, epoch>>

generate_schedule(data) ==
    /\ gpc = "idle"
    /\ Len(genlog) < MaxLog /\ TextCount < MaxLog
    /\ call' = [kind |-> "schedule", data |-> data, tasks |-> data.tasks]
    /\ response' = NoResponse /\ sent' = 0 /\ fallbacks' = 0
    /\ svc' = NoResult
    /\ IF ~data.body \/ ~data.has_tasks
       THEN /\ gpc' = "idle"
            /\ reply' = [status |-> HttpBadRequest,
                         error |-> "Missing 'tasks' field in request body"]
       ELSE IF InvalidTasks(data)
       THEN /\ gpc' = "idle"
            /\ reply' = [status |-> HttpBadRequest,
                         error |-> "Tasks must be a non-empty array"]
       ELSE /\ gpc' = "ATTEMPT_REMOTE"
            /\ reply' = NoReply
    /\ UNCHANGED <<stories, schedules, genlog, epoch>>

\* generate_vibe_story after model_service.generate_story
generate_vibe_story_finish(io) ==
    /\ gpc \in {"SUCCESS", "FALLBACK", "FATAL"}
    /\ call.kind = "story"
    /\ gpc' = "idle"
    /\ IF svc.state = "raised" \/ save_story_raises(svc.value.text) \/ ~io.save
       THEN /\ ai_except("story", io)
            /\ UNCHANGED <<stories, temp, permanent>>
       ELSE \E id \in Ids :
            /\ stories' = save_story(svc.value.text, id)
            /\ IF ~io.log_try
               THEN /\ ai_except("story", io)
                    /\ UNCHANGED <<temp, permanent>>
               ELSE /\ genlog' = log_generation("story", TRUE)
                    /\ IF /\ call.include_audio
                          /\ svc.value.audio.found
                          /\ svc.value.audio.value # <<>>
                       THEN LET name == StoredName(<<"story_" \o id>>, "wav", "u1")
                            IN  /\ IF call.save_audio
                                   THEN /\ permanent' =
                                             Write(permanent, name,
                                                   svc.value.audio.value, now)
                                        /\ UNCHANGED temp
                                   ELSE /\ temp' =
                                             Write(temp, name,
                                                   svc.value.audio.value, now)
                                        /\ UNCHANGED permanent
                                /\ reply' = [status |-> HttpOk, success |-> TRUE,
                                             storyText |-> svc.value.text,
                                             storyId |-> id,
                                             audioFilename |-> name]
                       ELSE /\ reply' = [status |-> HttpOk, success |-> TRUE,
                                         storyText |-> svc.value.text,
                                         storyId |-> id]
                            /\ UNCHANGED <<temp, permanent>>
    /\ UNCHANGED <<call, response, sent, fallbacks, svc, schedules, epoch>>

\* generate_schedule after model_service.generate_schedule
generate_schedule_finish(io) ==
    /\ gpc \in {"SUCCESS", "FALLBACK", "FATAL"}
    /\ call.kind = "schedule"
    /\ gpc' = "idle"
    /\ IF svc.state = "raised" \/ save_schedule_raises(svc.value.schedule)
          \/ ~io.save
       THEN /\ ai_except("schedule", io)
            /\ UNCHANGED schedules
       ELSE \E id \in Ids :
            /\ schedules' = save_schedule(svc.value.schedule, id)
            /\ IF ~io.log_try
               THEN ai_except("schedule", io)
               ELSE /\ genlog' = log_generation("schedule", TRUE)
                    /\ reply' = [status |-> HttpOk, success |-> TRUE,
                                 schedule |-> svc.value.schedule,
                                 scheduleId |-> id,
                                 taskCount |-> Len(svc.value.schedule),
                                 confidence |-> svc.value.confidence,
                                 metadata |-> svc.value.metadata]
    /\ UNCHANGED <<call, response, sent, fallbacks, svc, stories, epoch>>

\* a second passes
Second ==
    /\ epoch < MaxEpoch
    /\ epoch' = epoch + 1
    /\ UNCHANGED <<gpc, call, response, sent, fallbacks, svc, reply, stories,
                   schedules, genlog>>

\* --------------------------------------- handler calls made directly
StoryTexts == {"", "Like a river"}
ScheduleInputs ==
    {<<>>, <<[task |-> CheckPosture, time |-> ClockString(BaseHour, "AM")]>>}

\* TextHandler.save_story(story_text, story_id)
TextHandler_save_story(story_text, story_id) ==
    /\ IF save_story_raises(story_text)
       THEN /\ last' = Outcome("save_story", NoName, "ValueError", NotFound, 0)
            /\ UNCHANGED stories
       ELSE /\ stories' = save_story(story_text, story_id)
            /\ last' = Outcome("save_story", <<"story", epoch, story_id>>,
                               "none", [id |-> story_id, text |-> story_text], 0)
    /\ UNCHANGED <<temp, permanent, now, schedules>>

\* TextHandler.save_schedule(schedule, schedule_id)
TextHandler_save_schedule(schedule, schedule_id) ==
    /\ IF save_schedule_raises(schedule)
       THEN /\ last' = Outcome("save_schedule", NoName, "ValueError", NotFound, 0)
            /\ UNCHANGED schedules
       ELSE /\ schedules' = save_schedule(schedule, schedule_id)
            /\ last' = Outcome("save_schedule", <<"schedule", epoch, schedule_id>>,
                               "none", [id |-> schedule_id, schedule |-> schedule], 0)
    /\ UNCHANGED <<temp, permanent, now, stories>>

\* ------------------------------------- save_audio, statement by statement
Writers == {"w1", "w2"}
Closed == [open |-> FALSE]

\* a write of data at offset 0 of a file holding content
Overlay(content, data) == data \o SubSeq(content, Len(data) + 1, Len(content))

\* save_audio up to open(file_path, 'wb'): the file is created, or cut to
\* length 0 when it is there already
save_open(w, audio_data, filename, is_permanent, format, uid) ==
    /\ ~writers[w].open
    /\ IF audio_data = <<>>
       THEN /\ last' = Outcome("save", filename, "ValueError", NotFound, 0)
            /\ UNCHANGED <<temp, permanent, now, writers>>
       ELSE LET name == StoredName(filename, format, uid)
                target_dir == IF is_permanent THEN permanent ELSE temp
            IN  /\ Exists(target_dir, name) \/ FileCount < MaxFiles
                /\ IF is_permanent
                   THEN /\ permanent' = Write(permanent, name, <<>>, now)
                        /\ UNCHANGED temp
                   ELSE /\ temp' = Write(temp, name, <<>>, now)
                        /\ UNCHANGED permanent
                /\ writers' = [writers EXCEPT ![w] =
                                 [open |-> TRUE, name |-> name,
                                  permanent |-> is_permanent,
                                  data |-> audio_data, given |-> filename,
                                  format |-> format]]
                /\ last' = Outcome("open", name, "none", NotFound, 0)
                /\ UNCHANGED now

\* f.write(audio_data) and the close at the end of the with block
save_write(w) ==
    /\ writers[w].open
    /\ LET h == writers[w]
           target_dir == IF h.permanent THEN permanent ELSE temp
           content == Overlay(target_dir[h.name].data, h.data)
       IN  /\ IF h.permanent
              THEN /\ permanent' = Write(permanent, h.name, content, now)
                   /\ UNCHANGED temp
              ELSE /\ temp' = Write(temp, h.name, content, now)
                   /\ UNCHANGED permanent
           /\ last' = Outcome("save", h.name, "none",
                              [filename |-> h.name,
                               partition |-> IF h.permanent THEN "permanent"
                                             ELSE "temp",
                               format |-> h.format,
                               size_bytes |-> Len(h.data),
                               created_at |-> now,
                               permanent |-> h.permanent,
                               data |-> h.data,
                               given |-> h.given], 0)
    /\ writers' = [writers EXCEPT ![w] = Closed]
    /\ UNCHANGED now

\* --------------------------------- log_generation, statement by statement
Loggers == {"p1", "p2"}
Idle == [pc |-> "idle"]

\* arguments of log_generation: generation_type, success, metadata
LogInputs ==
    { <<"story", TRUE, Some([story_id |-> "i1"])>>,
      <<"story", FALSE, Some([error |-> "timeout"])>>,
      <<"schedule", FALSE, NotFound>> }

\* a log file that open(log_file, 'w') has cut to length 0, and one that
\* holds the text of two overlapping dumps; json.load raises on both
EmptyFile == [json |-> FALSE, empty |-> TRUE]
Garbled == [json |-> FALSE, empty |-> FALSE]

InFlight(p) == loggers[p].pc \in {"read", "opened"}

\* calls of this run: those that returned and those in progress
RECURSIVE Returned_calls(_)
Returned_calls(days) ==
    IF days = {} THEN 0
    ELSE LET d == CHOOSE x \in days : TRUE
         IN  Len(logcalls[d]) + Returned_calls(days \ {d})

CallsMade ==
    Returned_calls(DOMAIN logcalls) + Cardinality({p \in Loggers : InFlight(p)})

\* (mutation of ReadLogs: the existing file not read)
ReadLogs_fresh(log_file) == <<>>

\* logs = [] ; if log_file.exists(): logs = json.load(f)
ReadLogs(log_file) ==
    IF Exists(logfiles, log_file) THEN logfiles[log_file].value ELSE <<>>

\* (mutation of Updated: the entry not appended)
Updated_nothing(logs, log_entry) == logs

\* logs.append(log_entry)
Updated(logs, log_entry) == Append(logs, log_entry)

\* log_generation up to logs.append(log_entry)
log_read(p, generation_type, success, metadata) ==
    /\ ~InFlight(p)
    /\ CallsMade < MaxCalls
    /\ LET log_file == today
           log_entry == [timestamp |-> today, type |-> generation_type,
                         success |-> success,
                         metadata |-> IF metadata.found THEN metadata.value
                                      ELSE EmptyObject]
       IN  IF Exists(logfiles, log_file) /\ ~logfiles[log_file].json
           THEN loggers' = [loggers EXCEPT ![p] =
                              [pc |-> "raised", log_file |-> log_file,
                               log_entry |-> log_entry, logs |-> <<>>]]
           ELSE loggers' = [loggers EXCEPT ![p] =
                              [pc |-> "read", log_file |-> log_file,
                               log_entry |-> log_entry,
                               logs |-> Updated(ReadLogs(log_file), log_entry)]]
    /\ UNCHANGED <<logfiles, today, logcalls>>

\* open(log_file, 'w')
log_open(p) ==
    /\ loggers[p].pc = "read"
    /\ logfiles' = TextWrite(logfiles, loggers[p].log_file, EmptyFile)
    /\ loggers' = [loggers EXCEPT ![p].pc = "opened"]
    /\ UNCHANGED <<today, logcalls>>

\* json.dump(logs, f) and the close: the text goes to offset 0.  On a file
\* still empty it is the file's whole content; on a file another call has
\* written since, a longer earlier text leaves its tail behind.
log_dump(p) ==
    /\ loggers[p].pc = "opened"
    /\ LET log_file == loggers[p].log_file
       IN  /\ \/ logfiles' = TextWrite(logfiles, log_file, Json(loggers[p].logs))
              \/ /\ logfiles[log_file] # EmptyFile
                 /\ logfiles' = TextWrite(logfiles, log_file, Garbled)
           /\ logcalls' = TextWrite(logcalls, log_file,
                             Append(IF Exists(logcalls, log_file)
                                    THEN logcalls[log_file] ELSE <<>>,
                                    loggers[p].log_entry))
    /\ loggers' = [loggers EXCEPT ![p].pc = "done"]
    /\ UNCHANGED today

\* the calendar day changes
Midnight ==
    /\ today < MaxDay
    /\ today' = today + 1
    /\ UNCHANGED <<loggers, logfiles, logcalls>>

\* ------------- delete_audio and cleanup_temp_files, statement by statement
Deleters == {"d1", "d2"}
NotDeleting == [pc |-> "idle"]
NotSweeping == [pc |-> "idle"]

Deleting(d) == deleters[d].pc \in {"exists_permanent", "unlink"}
Sweeping == sweeper.pc \in {"scan", "unlink"}

\* what DELETE /audio/<filename> answers
Deleted(filename, ret, raised, status) ==
    [pc |-> "done", filename |-> filename, ret |-> ret, raised |-> raised,
     status |-> status]

\* delete_audio up to (temp_dir / filename).exists()
delete_exists_temp(d, filename) ==
    /\ ~Deleting(d)
    /\ deleters' = [deleters EXCEPT ![d] =
                      IF Exists(temp, filename)
                      THEN [pc |-> "unlink", filename |-> filename,
                            directory |-> "temp"]
                      ELSE [pc |-> "exists_permanent", filename |-> filename]]
    /\ UNCHANGED <<temp, permanent, now, last, sweeper>>

\* (permanent_dir / filename).exists(), and return False; the route
\* answers 404
delete_exists_permanent(d) ==
    /\ deleters[d].pc = "exists_permanent"
    /\ deleters' = [deleters EXCEPT ![d] =
                      IF Exists(permanent, deleters[d].filename)
                      THEN [pc |-> "unlink", filename |-> deleters[d].filename,
                            directory |-> "permanent"]
                      ELSE Deleted(deleters[d].filename, FALSE, "none", 404)]
    /\ UNCHANGED <<temp, permanent, now, last, sweeper>>

\* file_path.unlink() and return True; unlink of a path that is gone
\* raises FileNotFoundError, which the route answers with a 500
delete_unlink(d) ==
    /\ deleters[d].pc = "unlink"
    /\ LET filename == deleters[d].filename
           directory == IF deleters[d].directory = "temp" THEN temp
                        ELSE permanent
       IN  IF Exists(directory, filename)
           THEN /\ IF deleters[d].directory = "temp"
                   THEN temp' = Unlink(temp, filename) /\ UNCHANGED permanent
                   ELSE permanent' = Unlink(permanent, filename)
                        /\ UNCHANGED temp
                /\ deleters' = [deleters EXCEPT ![d] =
                                  Deleted(filename, TRUE, "none", 200)]
           ELSE /\ deleters' = [deleters EXCEPT ![d] =
                                  Deleted(filename, FALSE, "FileNotFoundError",
                                          HttpServerError)]
                /\ UNCHANGED <<temp, permanent>>
    /\ UNCHANGED <<now, last, sweeper>>

\* <filename> of the overlapping DELETE requests: a stored name, a name
\* never stored
DeleteNames == {<<"a", "wav">>, <<"zz", "wav">>}

\* max_age_hours of the overlapping cleanup requests: every file is old
\* enough, no file is
SweepAges == {-1, DefaultMaxAgeHours}

\* the names save_audio can have stored files under
StoredNames ==
    {StoredName(in[1], in[2], uid) : in \in SaveInputs, uid \in UUIDs}

\* what POST /audio/cleanup answers
Swept(deleted_count, raised, status) ==
    [pc |-> "done", deleted_count |-> deleted_count, raised |-> raised,
     status |-> status]

\* cleanup_temp_files up to the first glob: the cutoff and the *.wav paths
cleanup_glob(max_age_hours) ==
    /\ ~Sweeping
    /\ sweeper' = [pc |-> "scan", cutoff_time |-> now - max_age_hours,
                   loop |-> 1, paths |-> Glob(temp, SweptExtensions[1]),
                   file_path |-> NoName, deleted_count |-> 0]
    /\ UNCHANGED <<temp, permanent, now, last, deleters>>

\* one pass of a loop up to the age test: is_file() is False for a path
\* that is gone, and a file not older than the cutoff is left alone
cleanup_stat(file_path) ==
    /\ sweeper.pc = "scan"
    /\ file_path \in sweeper.paths
    /\ sweeper' = IF Exists(temp, file_path)
                     /\ temp[file_path].mtime < sweeper.cutoff_time
                  THEN [sweeper EXCEPT !.pc = "unlink",
                                       !.paths = @ \ {file_path},
                                       !.file_path = file_path]
                  ELSE [sweeper EXCEPT !.paths = @ \ {file_path}]
    /\ UNCHANGED <<temp, permanent, now, last, deleters>>

\* file_path.unlink() and deleted_count += 1; unlink of a path that is
\* gone raises FileNotFoundError, which the route answers with a 500
cleanup_unlink ==
    /\ sweeper.pc = "unlink"
    /\ IF Exists(temp, sweeper.file_path)
       THEN /\ temp' = Unlink(temp, sweeper.file_path)
            /\ sweeper' = [sweeper EXCEPT !.pc = "scan",
                                          !.file_path = NoName,
                                          !.deleted_count = @ + 1]
       ELSE /\ sweeper' = Swept(sweeper.deleted_count, "FileNotFoundError",
                                HttpServerError)
            /\ UNCHANGED temp
    /\ UNCHANGED <<permanent, now, last, deleters>>

\* the end of a loop: the *.mp3 glob after the first, return
\* deleted_count after the second
cleanup_next ==
    /\ sweeper.pc = "scan"
    /\ sweeper.paths = {}
    /\ sweeper' = IF sweeper.loop < Len(SweptExtensions)
                  THEN [sweeper EXCEPT
                          !.loop = @ + 1,
                          !.paths = Glob(temp, SweptExtensions[sweeper.loop + 1])]
                  ELSE Swept(sweeper.deleted_count, "none", HttpOk)
    /\ UNCHANGED <<temp, permanent, now, last, deleters>>

\* ------------------------------------------------------ specifications
Init ==
    /\ temp = EmptyDir
    /\ permanent = EmptyDir
    /\ now = 0
    /\ last = Outcome("init", NoName, "none", NotFound, 0)
    /\ gpc = "idle"
    /\ call = NoCall
    /\ response = NoResponse
    /\ sent = 0
    /\ fallbacks = 0
    /\ svc = NoResult
    /\ reply = NoReply
    /\ stories = EmptyDir
    /\ schedules = EmptyDir
    /\ genlog = <<>>
    /\ epoch = 0
    /\ writers = [w \in Writers |-> Closed]
    /\ loggers = [p \in Loggers |-> Idle]
    /\ logfiles = EmptyDir
    /\ today = 0
    /\ logcalls = EmptyDir
    /\ deleters = [d \in Deleters |-> NotDeleting]
    /\ sweeper = NotSweeping

\* the audio store
Next ==
    \/ \E audio_data \in AudioData, in \in SaveInputs,
          is_permanent \in BOOLEAN, uid \in UUIDs :
          save_audio(audio_data, in[1], is_permanent, in[2], uid)
            /\ UNCHANGED <<gatewayVars, concVars>>
    \/ \E filename \in LookupNames :
          get_audio_file(filename) /\ UNCHANGED <<gatewayVars, concVars>>
    \/ \E filename \in LookupNames :
          get_audio_info_route(filename) /\ UNCHANGED <<gatewayVars, concVars>>
    \/ \E filename \in LookupNames :
          delete_audio_file(filename) /\ UNCHANGED <<gatewayVars, concVars>>
    \/ \E permanent_only \in BOOLEAN :
          list_audio_files_route(permanent_only) /\ UNCHANGED <<gatewayVars, concVars>>
    \/ \E max_age_hours \in MaxAges :
          cleanup_temp_audio(max_age_hours) /\ UNCHANGED <<gatewayVars, concVars>>
    \/ Tick /\ UNCHANGED <<gatewayVars, concVars>>

Spec == Init /\ [][Next]_vars

\* the three save operations of the artifact store, called directly
StoreNext ==
    \/ \E audio_data \in AudioData, in \in SaveInputs,
          is_permanent \in BOOLEAN, uid \in UUIDs :
          save_audio(audio_data, in[1], is_permanent, in[2], uid)
            /\ UNCHANGED <<gatewayVars, concVars>>
    \/ \E story_text \in StoryTexts, story_id \in Ids :
          TextHandler_save_story(story_text, story_id)
            /\ UNCHANGED <<gpc, call, response, sent, fallbacks, svc, reply,
                           genlog, epoch, concVars>>
    \/ \E schedule \in ScheduleInputs, schedule_id \in Ids :
          TextHandler_save_schedule(schedule, schedule_id)
            /\ UNCHANGED <<gpc, call, response, sent, fallbacks, svc, reply,
                           genlog, epoch, concVars>>

StoreSpec == Init /\ [][StoreNext]_vars

\* task lists of POST /ai/generateschedule: a posture task, a walk task
\* and an ordinary task in any number (up to MaxTasks) and order
FallbackTasks == {CheckPosture, <<"10-min", "Walk">>, <<"Knee", "Stretches">>}
LongTaskLists == UNION {[1..n -> FallbackTasks] : n \in 1..MaxTasks}

\* one POST /ai/generateschedule up to the result of
\* FineTunedModelService.generate_schedule
FallbackNext ==
    \/ \E tasks \in LongTaskLists :
          generate_schedule([body |-> TRUE, has_tasks |-> TRUE,
                             is_list |-> TRUE, tasks |-> tasks])
            /\ UNCHANGED <<audioVars, concVars>>
    \/ post /\ UNCHANGED <<audioVars, concVars>>
    \/ handle_response /\ UNCHANGED <<audioVars, concVars>>
    \/ fallback /\ UNCHANGED <<audioVars, concVars>>

FallbackSpec == Init /\ [][FallbackNext]_vars

\* the generation gateway on a file system whose calls all work
GatewayNext ==
    \/ \E include_audio \in BOOLEAN, save_audio_permanent \in BOOLEAN :
          generate_vibe_story(include_audio, save_audio_permanent)
            /\ UNCHANGED <<audioVars, concVars>>
    \/ \E data \in ScheduleRequests :
          generate_schedule(data) /\ UNCHANGED <<audioVars, concVars>>
    \/ post /\ UNCHANGED <<audioVars, concVars>>
    \/ handle_response /\ UNCHANGED <<audioVars, concVars>>
    \/ fallback /\ UNCHANGED <<audioVars, concVars>>
    \/ generate_vibe_story_finish(IoWorks) /\ UNCHANGED <<now, last, concVars>>
    \/ generate_schedule_finish(IoWorks) /\ UNCHANGED <<audioVars, concVars>>
    \/ Second /\ UNCHANGED <<audioVars, concVars>>

GatewaySpec == Init /\ [][GatewayNext]_vars

\* the generation gateway on a file system whose calls can fail
IoNext ==
    \/ \E include_audio \in BOOLEAN, save_audio_permanent \in BOOLEAN :
          generate_vibe_story(include_audio, save_audio_permanent)
            /\ UNCHANGED <<audioVars, concVars>>
    \/ \E data \in ScheduleRequests :
          generate_schedule(data) /\ UNCHANGED <<audioVars, concVars>>
    \/ post /\ UNCHANGED <<audioVars, concVars>>
    \/ handle_response /\ UNCHANGED <<audioVars, concVars>>
    \/ fallback /\ UNCHANGED <<audioVars, concVars>>
    \/ \E io \in IoOutcomes :
          generate_vibe_story_finish(io) /\ UNCHANGED <<now, last, concVars>>
    \/ \E io \in IoOutcomes :
          generate_schedule_finish(io) /\ UNCHANGED <<audioVars, concVars>>

IoSpec == Init /\ [][IoNext]_vars

\* save_audio calls interleaved with each other and with readers
WriteNext ==
    \/ \E w \in Writers, audio_data \in AudioData, in \in SaveInputs,
          is_permanent \in BOOLEAN, uid \in UUIDs :
          save_open(w, audio_data, in[1], is_permanent, in[2], uid)
            /\ UNCHANGED <<gatewayVars, logVars, delVars>>
    \/ \E w \in Writers :
          save_write(w) /\ UNCHANGED <<gatewayVars, logVars, delVars>>
    \/ \E filename \in LookupNames :
          get_audio_file(filename) /\ UNCHANGED <<gatewayVars, concVars>>
    \/ \E permanent_only \in BOOLEAN :
          list_audio_files_route(permanent_only)
            /\ UNCHANGED <<gatewayVars, concVars>>

WriteSpec == Init /\ [][WriteNext]_vars

\* log_generation calls interleaved with each other
LogNext ==
    \/ \E p \in Loggers, in \in LogInputs :
          log_read(p, in[1], in[2], in[3])
            /\ UNCHANGED <<audioVars, gatewayVars, writers, delVars>>
    \/ \E p \in Loggers :
          log_open(p) /\ UNCHANGED <<audioVars, gatewayVars, writers, delVars>>
    \/ \E p \in Loggers :
          log_dump(p) /\ UNCHANGED <<audioVars, gatewayVars, writers, delVars>>
    \/ Midnight /\ UNCHANGED <<audioVars, gatewayVars, writers, delVars>>

LogSpec == Init /\ [][LogNext]_vars

\* log_generation calls one at a time: a call starts only when no other
\* call is in progress
LogSeqNext ==
    \/ \E p \in Loggers, in \in LogInputs :
          /\ \A q \in Loggers : ~InFlight(q)
          /\ log_read(p, in[1], in[2], in[3])
          /\ UNCHANGED <<audioVars, gatewayVars, writers, delVars>>
    \/ \E p \in Loggers :
          log_open(p) /\ UNCHANGED <<audioVars, gatewayVars, writers, delVars>>
    \/ \E p \in Loggers :
          log_dump(p) /\ UNCHANGED <<audioVars, gatewayVars, writers, delVars>>
    \/ Midnight /\ UNCHANGED <<audioVars, gatewayVars, writers, delVars>>

LogSeqSpec == Init /\ [][LogSeqNext]_vars

\* delete and cleanup requests that overlap, on files stored beforehand
DeleteNext ==
    \/ \E audio_data \in AudioData, in \in SaveInputs,
          is_permanent \in BOOLEAN, uid \in UUIDs :
          /\ \A d \in Deleters : ~Deleting(d)
          /\ ~Sweeping
          /\ save_audio(audio_data, in[1], is_permanent, in[2], uid)
          /\ UNCHANGED <<gatewayVars, concVars>>
    \/ \E d \in Deleters, filename \in DeleteNames :
          delete_exists_temp(d, filename)
            /\ UNCHANGED <<gatewayVars, writers, logVars>>
    \/ \E d \in Deleters :
          delete_exists_permanent(d)
            /\ UNCHANGED <<gatewayVars, writers, logVars>>
    \/ \E d \in Deleters :
          delete_unlink(d) /\ UNCHANGED <<gatewayVars, writers, logVars>>
    \/ \E max_age_hours \in SweepAges :
          cleanup_glob(max_age_hours)
            /\ UNCHANGED <<gatewayVars, writers, logVars>>
    \/ \E file_path \in StoredNames :
          cleanup_stat(file_path)
            /\ UNCHANGED <<gatewayVars, writers, logVars>>
    \/ cleanup_unlink /\ UNCHANGED <<gatewayVars, writers, logVars>>
    \/ cleanup_next /\ UNCHANGED <<gatewayVars, writers, logVars>>

DeleteSpec == Init /\ [][DeleteNext]_vars

\* ================================================================ claims
\* C1: after save_audio(b, filename, permanent=False, format) with a
\* non-empty b, get_audio of the returned filename gives exactly b, the
\* temp partition holds b under that name, and the permanent partition is
\* as it was, whatever the two partitions held before.
C1_SaveTempThenGet ==
    [][ (last'.op = "save" /\ last'.raised = "none" /\ ~last'.ret.permanent) =>
          /\ last'.ret.data # <<>>
          /\ last'.ret.partition = "temp"
          /\ Exists(temp', last'.ret.filename)
          /\ \A name \in DOMAIN temp', b \in AudioData :
                (name = last'.ret.filename /\ b = last'.ret.data) =>
                   /\ get_audio(name)' = Some(b)
                   /\ temp'[name].data = b
          /\ permanent' = permanent ]_vars

\* C1 witness: a temp save of a name the permanent partition already holds
\* with other bytes.
C1_Witness ==
    /\ last.op = "save" /\ last.raised = "none" /\ ~last.ret.permanent
    /\ Exists(permanent, last.ret.filename)
    /\ permanent[last.ret.filename].data # last.ret.data

\* C2: a cleanup never removes or alters a file of the permanent
\* partition, however old; a permanent file disappears only through
\* delete_audio of its name.
C2_PermanentNeverSwept ==
    [][ /\ (last'.op = "cleanup" => permanent' = permanent)
        /\ \A n \in DOMAIN permanent :
              n \notin DOMAIN permanent' =>
                 (last'.op = "delete" /\ last'.filename = n) ]_vars

\* C2 witness: a cleanup that deleted something while the permanent
\* partition holds a wav or mp3 file older than the threshold.
C2_Witness ==
    /\ last.op = "cleanup" /\ last.ret.deleted_count >= 1
    /\ \E n \in DOMAIN permanent :
          /\ n[Len(n)] \in {"wav", "mp3"}
          /\ now - permanent[n].mtime > last.ret.max_age_hours

\* C3: cleanup deletes a temp file iff its extension is wav or mp3 and
\* now - lastModified > maxAgeHours (strictly); every other temp file is
\* left as it was, and the count returned is the number of files deleted.
C3_CleanupExactly ==
    [][ last'.op = "cleanup" =>
          LET h == last'.ret.max_age_hours IN
          /\ \A n \in DOMAIN temp :
                (n \notin DOMAIN temp') <=>
                   /\ Len(n) >= 2 /\ n[Len(n)] \in {"wav", "mp3"}
                   /\ now - temp[n].mtime > h
          /\ \A n \in DOMAIN temp' : n \in DOMAIN temp /\ temp'[n] = temp[n]
          /\ last'.ret.deleted_count =
                Cardinality((DOMAIN temp) \ (DOMAIN temp')) ]_vars

\* C3 witness: a cleanup that deleted a file and kept an .ogg file older
\* than the threshold.
C3_Witness ==
    /\ last.op = "cleanup" /\ last.ret.deleted_count >= 1
    /\ \E n \in DOMAIN temp :
          /\ n[Len(n)] = "ogg"
          /\ now - temp[n].mtime > last.ret.max_age_hours

\* C10: delete_audio of a filename in neither partition returns False,
\* the DELETE route answers 404, nothing is raised and no stored file
\* changes.
C10_DeleteMissing ==
    [][ (/\ last'.op = "delete"
         /\ ~Exists(temp, last'.filename)
         /\ ~Exists(permanent, last'.filename)) =>
          /\ last'.ret = FALSE
          /\ last'.status = 404
          /\ last'.raised = "none"
          /\ temp' = temp /\ permanent' = permanent ]_vars

\* C10 witness: a 404 delete while both partitions hold files.
C10_Witness ==
    /\ last.op = "delete" /\ last.status = 404
    /\ DOMAIN temp # {} /\ DOMAIN permanent # {}

\* C4: when the remote endpoint answers with a non-200 status, the call
\* never reaches the fallback generator, the service raises to its caller
\* and the route answers HTTP 500.
C4_HttpErrorIsFatal ==
    (response.received /\ response.status # 200) =>
        /\ gpc \in {"RESPONSE", "FATAL", "idle"}
        /\ fallbacks = 0
        /\ (gpc \in {"FATAL", "idle"} => svc.state = "raised")
        /\ (gpc = "idle" => reply.status = 500)

\* C4 witness: a schedule request answered 500 after the endpoint said 500.
C4_Witness ==
    /\ gpc = "idle" /\ call.kind = "schedule"
    /\ response.received /\ response.status = 500
    /\ reply.status = 500 /\ sent = 1

\* C5: when the POST of generate_story fails at network level, the
\* service does not raise; it returns pool[t mod 3] for the time t in
\* seconds at which the fallback runs, with null audio.
C5_FallbackStory ==
    [][ (/\ gpc = "REQUEST_EXCEPTION" /\ call.kind = "story"
         /\ ~response.received /\ epoch' = epoch) =>
          /\ gpc' = "FALLBACK"
          /\ svc'.state = "returned"
          /\ svc'.value.audio = [found |-> FALSE]
          /\ svc'.value.text =
                CASE epoch % 3 = 0 -> "Today is a new chapter"
                  [] epoch % 3 = 1 -> "Like a river"
                  [] epoch % 3 = 2 -> "Recovery is not a race" ]_vars

\* C5 witness: the fallback story chosen at t = 3, where the rotation has
\* wrapped to the first text.
C5_Witness ==
    /\ gpc = "FALLBACK" /\ call.kind = "story" /\ ~response.received
    /\ sent = 1 /\ epoch = 3
    /\ svc.value.text = "Today is a new chapter"

\* C6: when the endpoint answers 200 with a schedule of which some entry
\* lacks 'time' or 'task', generate_schedule raises to its caller, the
\* fallback generator is not used, the route answers 500 and no schedule
\* artifact is written.
C6_MalformedIsFatal ==
    [][ (/\ call'.kind = "schedule"
         /\ response'.received /\ response'.status = 200 /\ response'.body.json
         /\ "schedule" \in DOMAIN response'.body.value
         /\ \E i \in 1..Len(response'.body.value.schedule) :
               {"time", "task"} \ (DOMAIN response'.body.value.schedule[i]) # {}) =>
          /\ gpc' \in {"RESPONSE", "FATAL", "idle"}
          /\ fallbacks' = 0
          /\ (gpc' \in {"FATAL", "idle"} => svc'.state = "raised")
          /\ (gpc' = "idle" => reply'.status = 500)
          /\ schedules' = schedules ]_vars

\* C6 witness: a 500 reply after a 200 response whose second entry has no
\* 'task'.
C6_Witness ==
    /\ gpc = "idle" /\ call.kind = "schedule" /\ reply.status = 500
    /\ response.received /\ response.status = 200 /\ response.body.json
    /\ "schedule" \in DOMAIN response.body.value
    /\ Len(response.body.value.schedule) = 2
    /\ "task" \notin DOMAIN response.body.value.schedule[2]

\* C7: a schedule request whose tasks are missing, not a list or an empty
\* list is answered 400 with no outbound request made and nothing
\* persisted; a schedule call that has sent a request has a non-empty list.
C7_InvalidInputBeforeNetwork ==
    [][ (/\ call'.kind = "schedule"
         /\ \/ ~call'.data.body \/ ~call'.data.has_tasks
            \/ ~call'.data.is_list \/ call'.data.tasks = <<>>) =>
          /\ gpc' = "idle"
          /\ reply'.status = 400
          /\ sent' = 0 /\ ~response'.received /\ fallbacks' = 0
          /\ schedules' = schedules /\ stories' = stories
          /\ genlog' = genlog ]_vars

\* C7 witness: an empty task list answered 400 after an earlier call had
\* gone out to the endpoint.
C7_Witness ==
    /\ call.kind = "schedule" /\ call.data.is_list /\ call.data.tasks = <<>>
    /\ reply.status = 400 /\ sent = 0
    /\ Len(genlog) >= 1

\* C8: for a single task whose name contains "posture" in any case, the
\* fallback schedule after a network failure is exactly three entries of
\* that task at 11:00 AM, 1:00 PM and 3:00 PM, confidence 0.5, metadata
\* source fallback.
C8_PostureFallback ==
    (/\ gpc = "FALLBACK" /\ call.kind = "schedule" /\ ~response.received
     /\ call.tasks \in { << <<"Check", "Posture">> >>, << <<"POSTURE", "walk">> >> }) =>
        svc = [state |-> "returned",
               value |->
                 [schedule |->
                    << [time |-> [hour |-> 11, suffix |-> "AM"], task |-> call.tasks[1]],
                       [time |-> [hour |-> 1, suffix |-> "PM"], task |-> call.tasks[1]],
                       [time |-> [hour |-> 3, suffix |-> "PM"], task |-> call.tasks[1]] >>,
                  metadata |-> [source |-> "fallback"],
                  confidence |-> "0.5"]]

\* C8 witness: the fallback schedule of ["Check Posture"] after a network
\* failure.
C8_Witness ==
    /\ gpc = "FALLBACK" /\ call.kind = "schedule" /\ ~response.received
    /\ call.tasks = << <<"Check", "Posture">> >>
    /\ Len(svc.value.schedule) = 3

\* C9: a call sends at most one request, and the fallback generator runs
\* only after a network-level failure, that is when no HTTP response was
\* received (so never after a non-200 status); a call ends as exactly one
\* of SUCCESS, FALLBACK, FATAL.
C9_OneRequestThreeOutcomes ==
    /\ sent <= 1
    /\ fallbacks <= 1
    /\ (fallbacks > 0 \/ gpc \in {"REQUEST_EXCEPTION", "FALLBACK"}) =>
          (sent = 1 /\ ~response.received)
    /\ gpc = "SUCCESS" =>
          (fallbacks = 0 /\ svc.state = "returned" /\ response.received
           /\ response.status = 200)
    /\ gpc = "FATAL" => (fallbacks = 0 /\ svc.state = "raised")
    /\ gpc = "FALLBACK" => svc.state = "returned"

\* C11: when a name is in both partitions, get_audio and get_audio_info
\* give the temp copy; the permanent copy is given only when temp holds no
\* file of that name.
C11_TempWins ==
    /\ (last.op = "get" /\ Exists(temp, last.filename)) =>
          (last.status = 200 /\ last.ret.body = temp[last.filename].data)
    /\ (last.op = "get" /\ ~Exists(temp, last.filename)
          /\ Exists(permanent, last.filename)) =>
          (last.status = 200 /\ last.ret.body = permanent[last.filename].data)
    /\ (last.op = "info" /\ Exists(temp, last.filename)) =>
          /\ last.status = 200
          /\ last.ret.partition = "temp"
          /\ last.ret.size_bytes = Len(temp[last.filename].data)
          /\ last.ret.modified_at = temp[last.filename].mtime
    /\ (last.op = "info" /\ ~Exists(temp, last.filename)
          /\ Exists(permanent, last.filename)) =>
          /\ last.status = 200
          /\ last.ret.partition = "permanent"
          /\ last.ret.size_bytes = Len(permanent[last.filename].data)
          /\ last.ret.modified_at = permanent[last.filename].mtime

\* C11 witness: get_audio_info of a name held in both partitions with
\* contents of different sizes.
C11_Witness ==
    /\ last.op = "info"
    /\ Exists(temp, last.filename) /\ Exists(permanent, last.filename)
    /\ Len(temp[last.filename].data) # Len(permanent[last.filename].data)

\* C12: the name save_audio stores under ends with the format; it is the
\* supplied name when that already ends with ".<format>", the supplied
\* name with the format appended when it does not, and audio_<uuid>.<format>
\* when no name was supplied.
C12_ExtensionOnce ==
    (last.op = "save" /\ last.raised = "none") =>
        LET given  == last.ret.given
            stored == last.ret.filename
            fmt    == last.ret.format
            ends   == Len(given) >= 2 /\ given[Len(given)] = fmt
        IN  /\ Len(stored) >= 2 /\ stored[Len(stored)] = fmt
            /\ (given # <<>> /\ ends) => stored = given
            /\ (given # <<>> /\ ~ends) =>
                  /\ Len(stored) = Len(given) + 1
                  /\ SubSeq(stored, 1, Len(given)) = given
            /\ given = <<>> => stored \in {<<"audio_u1", fmt>>}

\* C12 witness: a save whose supplied name already carried the extension.
C12_Witness ==
    /\ last.op = "save" /\ last.raised = "none"
    /\ last.ret.given = <<"a", "wav">> /\ last.ret.format = "wav"
    /\ last.ret.filename = <<"a", "wav">>

\* C13: list_audio_files(permanent_only=True) gives exactly the audio
\* files of the permanent partition, each flagged permanent, and no entry
\* of a temp file; with permanent_only=False every wav/mp3/ogg file of
\* both partitions has its entry.
C13_ListPartitions ==
    last.op = "list" =>
        LET files == {last.ret.files[i] : i \in 1..Len(last.ret.files)}
            audio(n) == Len(n) >= 2 /\ n[Len(n)] \in {"wav", "mp3", "ogg"}
        IN  /\ \A e \in files :
                  IF e.permanent
                  THEN Exists(permanent, e.filename)
                       /\ e.size_bytes = Len(permanent[e.filename].data)
                  ELSE Exists(temp, e.filename)
                       /\ e.size_bytes = Len(temp[e.filename].data)
            /\ last.ret.permanent_only => \A e \in files : e.permanent
            /\ \A n \in DOMAIN permanent :
                  audio(n) => \E e \in files : e.filename = n /\ e.permanent
            /\ ~last.ret.permanent_only =>
                  \A n \in DOMAIN temp :
                     audio(n) => \E e \in files : e.filename = n /\ ~e.permanent
            /\ last.ret.count = Len(last.ret.files)

\* C13 witness: a permanent-only listing of one file while temp holds a
\* file of the same name.
C13_Witness ==
    /\ last.op = "list" /\ last.ret.permanent_only /\ last.ret.count = 1
    /\ Exists(temp, last.ret.files[1].filename)

\* C20 as claimed: after delete_audio returned True, get_audio of the name
\* gives None and a second delete_audio would return False.
C20_GoneAfterDelete ==
    (last.op = "delete" /\ last.ret = TRUE) =>
        /\ get_audio(last.filename) = NotFound
        /\ ~delete_audio_returns(last.filename)

\* C20 amended: delete_audio that returned True removed exactly the first
\* match.  If the name was in one partition only, get_audio then gives
\* None and a second delete returns False; if it was in both, the temp copy
\* is removed, the permanent copy is untouched, get_audio gives the
\* permanent copy and a second delete returns True.
C20_FirstMatchDeleted ==
    [][ (last'.op = "delete" /\ last'.ret = TRUE) =>
          \A n \in (DOMAIN temp) \cup (DOMAIN permanent) :
             n = last'.filename =>
                /\ ~Exists(temp', n)
                /\ \A m \in (DOMAIN temp) \ {n} : Exists(temp', m) /\ temp'[m] = temp[m]
                /\ \A m \in (DOMAIN permanent) \ {n} :
                      Exists(permanent', m) /\ permanent'[m] = permanent[m]
                /\ IF Exists(temp, n) /\ Exists(permanent, n)
                   THEN /\ permanent' = permanent
                        /\ get_audio(n)' = Some(permanent[n].data)
                        /\ delete_audio_returns(n)'
                   ELSE /\ get_audio(n)' = NotFound
                        /\ ~delete_audio_returns(n)' ]_vars

\* C20 witness: a delete that returned True and left the permanent copy
\* of the name behind.
C20_Witness ==
    /\ last.op = "delete" /\ last.ret = TRUE
    /\ Exists(permanent, last.filename)

\* C18: save_audio with empty bytes, save_story with empty text and
\* save_schedule with an empty list raise ValueError and leave every
\* directory as it was; a save that returns normally had a non-empty
\* payload.
C18_EmptyPayloadRejected ==
    [][ /\ last'.raised \in {"none", "ValueError"}
        /\ last'.raised = "ValueError" =>
              /\ temp' = temp /\ permanent' = permanent
              /\ stories' = stories /\ schedules' = schedules
        /\ (last'.op = "save" /\ last'.raised = "none") =>
              last'.ret.data # <<>>
        /\ (last'.op = "save_story" /\ last'.raised = "none") =>
              last'.ret.text # ""
        /\ (last'.op = "save_schedule" /\ last'.raised = "none") =>
              last'.ret.schedule # <<>> ]_vars

\* C18 witness: save_schedule of an empty list raised while the audio and
\* story directories already held files.
C18_Witness ==
    /\ last.op = "save_schedule" /\ last.raised = "ValueError"
    /\ DOMAIN temp # {} /\ DOMAIN stories # {} /\ DOMAIN schedules = {}

\* C19: every entry of a fallback schedule carries a well-formed 12-hour
\* time: the hour shown is between 1 and 12 and the suffix is AM or PM,
\* whatever the number and order of posture, walk and other tasks.
C19_WellFormedTimes ==
    (gpc = "FALLBACK" /\ call.kind = "schedule") =>
        \A i \in 1..Len(svc.value.schedule) :
            /\ svc.value.schedule[i].time.hour \in 1..12
            /\ svc.value.schedule[i].time.suffix \in {"AM", "PM"}

\* C17: every failure inside an AI route handler (the reply is a 500) is
\* recorded as the newest generation-log entry, of the route's type and
\* with success false, and is answered with the handler's JSON error body;
\* no exception leaves the view function.
C17_FailuresLoggedAndTranslated ==
    [][ (gpc # "idle" /\ gpc' = "idle" /\ reply'.status = HttpServerError) =>
          /\ reply' # Unhandled
          /\ reply'.success = FALSE
          /\ Len(genlog') = Len(genlog) + 1
          /\ genlog'[Len(genlog')].success = FALSE
          /\ genlog'[Len(genlog')].type = call.kind ]_vars

\* C14: a reader sees an audio file absent or holding the complete content
\* of one save: get_audio never returns, and the listing never shows, a
\* file that is empty or holds anything but the bytes of one save.
C14_WriteOnce ==
    /\ (last.op = "get" /\ last.status = 200) =>
          last.ret.body \in AudioData \ {<<>>}
    /\ last.op = "list" =>
          \A i \in 1..Len(last.ret.files) :
             \E b \in AudioData \ {<<>>} : last.ret.files[i].size_bytes = Len(b)

\* C15: when two log_generation calls of the same day both read the same
\* array before either rewrote the file, the file they leave does not
\* hold both entries: it holds fewer entries than calls have returned for
\* that day, and if it parses it is the array read plus one of the two
\* entries.
C15_LostUpdate ==
    \A p \in Loggers, q \in Loggers :
       (/\ p # q
        /\ loggers[p].pc = "done" /\ loggers[q].pc = "done"
        /\ loggers[p].log_file = loggers[q].log_file
        /\ Len(loggers[p].logs) = Len(loggers[q].logs)
        /\ SubSeq(loggers[p].logs, 1, Len(loggers[p].logs) - 1)
             = SubSeq(loggers[q].logs, 1, Len(loggers[q].logs) - 1)) =>
          LET f == logfiles[loggers[p].log_file]
              read == SubSeq(loggers[p].logs, 1, Len(loggers[p].logs) - 1)
          IN  /\ f.json =>
                    /\ f.value \in {Append(read, loggers[p].log_entry),
                                    Append(read, loggers[q].log_entry)}
                    /\ Len(f.value) < Len(logcalls[loggers[p].log_file])
              /\ Len(logcalls[loggers[p].log_file]) >= Len(read) + 2

\* C15 witness: two calls of day 0 have returned, both had read the empty
\* log, and the file holds one entry.
C15_Witness ==
    /\ loggers["p1"].pc = "done" /\ loggers["p2"].pc = "done"
    /\ loggers["p1"].log_file = 0 /\ loggers["p2"].log_file = 0
    /\ Len(loggers["p1"].logs) = 1 /\ Len(loggers["p2"].logs) = 1
    /\ loggers["p1"].log_entry # loggers["p2"].log_entry
    /\ logfiles[0] = Json(<<loggers["p2"].log_entry>>)
    /\ Len(logcalls[0]) = 2

\* C16: with log_generation calls one at a time, whenever no call is in
\* progress each day's file holds exactly the entries of the calls made on
\* that day, in call order (so each call appended one entry at the end and
\* left the earlier ones as they were), every entry carries its file's
\* day, and no call failed.
C16_SequentialAppend ==
    (\A p \in Loggers : ~InFlight(p)) =>
        /\ DOMAIN logfiles = DOMAIN logcalls
        /\ \A d \in DOMAIN logcalls :
              /\ logfiles[d] = Json(logcalls[d])
              /\ \A i \in 1..Len(logcalls[d]) : logcalls[d][i].timestamp = d
        /\ \A p \in Loggers : loggers[p].pc # "raised"

\* C16 witness: two calls on day 0 and one on day 1 have returned.
C16_Witness ==
    /\ \A p \in Loggers : ~InFlight(p)
    /\ DOMAIN logfiles = {0, 1}
    /\ Len(logfiles[0].value) = 2 /\ Len(logfiles[1].value) = 1
    /\ logfiles[0].value[1] # logfiles[0].value[2]

\* C21: a delete_audio or cleanup_temp_files call that overlaps another
\* one never ends in an error: each call completes normally, reporting
\* the file deleted or not found (not counted).
C21_NoErrorOnVanishedFile ==
    /\ \A d \in Deleters :
          deleters[d].pc = "done" =>
             (deleters[d].raised = "none" /\ deleters[d].status \in {200, 404})
    /\ sweeper.pc = "done" =>
          (sweeper.raised = "none" /\ sweeper.status = HttpOk)

====
